---- MODULE Spec2Model ----
(***************************************************************************)
(* Model of the depth-bounded asynchronous crawler                         *)
(* (src/crawlers/request_crawler.py) and of the URL / link-extraction      *)
(* helpers it uses (src/utils/bs4.py).                                     *)
(*                                                                         *)
(* URLs are sequences of one-character strings, so that urlparse,          *)
(* urldefrag, urljoin and normalize_url are computed character by          *)
(* character as the Python code computes them.                             *)
(***************************************************************************)
EXTENDS Integers, Sequences, FiniteSets, TLC

\* ------------------------------------------------------------------ bounds

\* max_depth ranges over 0..MaxDepth
MaxDepth == 3

\* max_concurrent (the semaphore's initial value) ranges over 1..MaxConcurrent
MaxConcurrent == 2

\* The inter-request delay (self.delay), in clock ticks.
Delay == 2

\* ------------------------------------------------------- string utilities

Min(S) == CHOOSE x \in S : \A y \in S : x <= y

\* s[from:] in Python, with 1-based from
Drop(s, from) == SubSeq(s, from, Len(s))

\* s[:to] in Python, with 1-based inclusive to
Take(s, to) == SubSeq(s, 1, to)

\* index of the first character of s at or after from that is in chars,
\* Len(s) + 1 when there is none
FindAny(s, chars, from) ==
    LET idx == {i \in from..Len(s) : s[i] \in chars}
    IN IF idx = {} THEN Len(s) + 1 ELSE Min(idx)

\* Python's "p in s" for strings
Contains(s, p) ==
    \E i \in 1..(Len(s) - Len(p) + 1) : SubSeq(s, i, i + Len(p) - 1) = p

\* Python's s.endswith("/")
EndsWithSlash(s) == Len(s) > 0 /\ s[Len(s)] = "/"

\* index of the last "/" of s, 0 when there is none
LastSlash(s) ==
    LET idx == {i \in 1..Len(s) : s[i] = "/"}
    IN IF idx = {} THEN 0 ELSE CHOOSE i \in idx : \A j \in idx : j <= i

Letters ==
    {"a","b","c","d","e","f","g","h","i","j","k","l","m",
     "n","o","p","q","r","s","t","u","v","w","x","y","z"}

SchemeChars == Letters \cup {"0","1","2","3","4","5","6","7","8","9","+","-","."}

HttpScheme == <<"h","t","t","p">>

\* urllib.parse.uses_relative / uses_netloc, restricted to the schemes of the
\* model's alphabet (http is in both; mailto is in neither)
UsesRelative == {HttpScheme}
UsesNetloc == {HttpScheme}

\* ------------------------------------------------------------ urllib.parse

\* the two parts of s around position i: s[:i] and s[i+1:] (s and the empty
\* string when i is past the end)
SplitAt(s, i) == [before |-> Take(s, i - 1), after |-> Drop(s, i + 1)]

\* whether url[:colon] is a scheme: a letter followed by scheme characters
HasScheme(url, colon) ==
    /\ colon <= Len(url)
    /\ colon > 1
    /\ url[1] \in Letters
    /\ \A i \in 1..(colon - 1) : url[i] \in SchemeChars

SchemeAt(url, default_scheme, colon) ==
    IF HasScheme(url, colon)
    THEN [scheme |-> Take(url, colon - 1), rest |-> Drop(url, colon + 1)]
    ELSE [scheme |-> default_scheme, rest |-> url]

\* urlsplit, first step: the scheme and what follows its ":"
SplitScheme(url, default_scheme) ==
    SchemeAt(url, default_scheme, FindAny(url, {":"}, 1))

NetlocAt(rest, delim) ==
    [netloc |-> SubSeq(rest, 3, delim - 1), rest |-> Drop(rest, delim)]

\* urlsplit, second step: after "//" the netloc runs to the next "/", "?" or "#"
SplitNetloc(rest) ==
    IF Len(rest) >= 2 /\ rest[1] = "/" /\ rest[2] = "/"
    THEN NetlocAt(rest, FindAny(rest, {"/", "?", "#"}, 3))
    ELSE [netloc |-> <<>>, rest |-> rest]

ParsedUrl(scheme, netloc, q, fragment) ==
    [scheme |-> scheme, netloc |-> netloc, path |-> q.before,
     query |-> q.after, fragment |-> fragment]

\* urlsplit, last steps: the fragment after the first "#", then the query
\* after the first "?"
ParseAfterFragment(scheme, netloc, f) ==
    ParsedUrl(scheme, netloc, SplitAt(f.before, FindAny(f.before, {"?"}, 1)), f.after)

ParseAfterNetloc(scheme, n) ==
    ParseAfterFragment(scheme, n.netloc, SplitAt(n.rest, FindAny(n.rest, {"#"}, 1)))

ParseAfterScheme(s) == ParseAfterNetloc(s.scheme, SplitNetloc(s.rest))

\* urlparse(url, default_scheme): scheme, netloc, path, query, fragment
\* (params, introduced by ";", are not in the alphabet)
urlparse_with(url, default_scheme) == ParseAfterScheme(SplitScheme(url, default_scheme))

urlparse(url) == urlparse_with(url, <<>>)

\* urlunsplit: "//" and the netloc go before the path when there is a netloc,
\* or when the scheme takes one and the path does not start with "//"
UnparseNetloc(p) ==
    IF p.netloc # <<>>
       \/ (p.scheme # <<>> /\ p.scheme \in UsesNetloc
           /\ ~(Len(p.path) >= 2 /\ p.path[1] = "/" /\ p.path[2] = "/"))
    THEN <<"/", "/">> \o p.netloc
         \o (IF p.path # <<>> /\ p.path[1] # "/" THEN <<"/">> ELSE <<>>)
         \o p.path
    ELSE p.path

UnparseScheme(p, url) == IF p.scheme # <<>> THEN p.scheme \o <<":">> \o url ELSE url

UnparseQuery(p, url) == IF p.query # <<>> THEN url \o <<"?">> \o p.query ELSE url

UnparseFragment(p, url) ==
    IF p.fragment # <<>> THEN url \o <<"#">> \o p.fragment ELSE url

\* urlunparse((scheme, netloc, path, '', query, fragment))
urlunparse(p) ==
    UnparseFragment(p, UnparseQuery(p, UnparseScheme(p, UnparseNetloc(p))))

WithoutFragment(p) == [p EXCEPT !.fragment = <<>>]

\* urldefrag(url)[0]
urldefrag(url) ==
    IF Contains(url, <<"#">>) THEN urlunparse(WithoutFragment(urlparse(url))) ELSE url

\* urljoin's result for a reference u without scheme difference and without
\* netloc, against the parsed base b: the base's netloc, and the reference's
\* path (the base's path when it has none, the base's directory before it when
\* it is relative); references have no "." or ".." segments
JoinedParts(b, u) ==
    IF u.path = <<>>
    THEN [u EXCEPT !.netloc = b.netloc, !.path = b.path,
                   !.query = IF u.query = <<>> THEN b.query ELSE u.query]
    ELSE IF u.path[1] = "/"
    THEN [u EXCEPT !.netloc = b.netloc]
    ELSE [u EXCEPT !.netloc = b.netloc,
                   !.path = Take(b.path, LastSlash(b.path)) \o u.path]

JoinParsed(b, u, url) ==
    IF u.scheme # b.scheme \/ u.scheme \notin UsesRelative THEN url
    ELSE IF u.netloc # <<>> THEN urlunparse(u)
    ELSE urlunparse(JoinedParts(b, u))

JoinWithBase(b, url) == JoinParsed(b, urlparse_with(url, b.scheme), url)

\* urljoin(base, url)
urljoin(base, url) ==
    IF base = <<>> THEN url
    ELSE IF url = <<>> THEN base
    ELSE JoinWithBase(urlparse(base), url)

\* ------------------------------------------------------- utils.bs4 helpers

\* the last lines of normalize_url: the defragmented URL without its last
\* character when the parsed path ends with "/" and is not "/"
StripTrailingSlash(defragged_url, path) ==
    IF EndsWithSlash(path) /\ path # <<"/">>
    THEN Take(defragged_url, Len(defragged_url) - 1)
    ELSE defragged_url

NormalizeDefragged(defragged_url) ==
    StripTrailingSlash(defragged_url, urlparse(defragged_url).path)

\* normalize_url(url, base_url)
normalize_url(url, base_url) ==
    NormalizeDefragged(urldefrag(IF base_url # <<>> THEN urljoin(base_url, url) ELSE url))

\* ignored_patterns of extract_links_with_text
IgnoredPatterns ==
    { <<"j","a","v","a","s","c","r","i","p","t",":">>,
      <<"m","a","i","l","t","o",":">>,
      <<"t","e","l",":">>,
      <<"w","h","a","t","s","a","p","p",".","c","o","m">>,
      <<"t","w","i","t","t","e","r",".","c","o","m">>,
      <<"f","a","c","e","b","o","o","k",".","c","o","m">>,
      <<"l","i","n","k","e","d","i","n",".","c","o","m">>,
      <<"i","n","s","t","a","g","r","a","m",".","c","o","m">> }

\* the texts collected for one anchor: its text and its title, or "" when
\* it has neither
AnchorTexts(a) ==
    LET texts == (IF a.text # "" THEN {a.text} ELSE {})
                 \cup (IF a.title # "" THEN {a.title} ELSE {})
    IN IF texts = {} THEN {""} ELSE texts

\* the list links_and_text built by the loop over soup.find_all("a");
\* a page is the sequence of its anchors [href, text, title]
RECURSIVE LinksAndText(_, _)
LinksAndText(anchors, base_url) ==
    IF anchors = <<>> THEN <<>>
    ELSE LET a == Head(anchors)
             rest == LinksAndText(Tail(anchors), base_url)
         IN IF a.href = <<>> \/ (\E p \in IgnoredPatterns : Contains(a.href, p))
            THEN rest
            ELSE <<[link |-> normalize_url(a.href, base_url),
                    texts |-> AnchorTexts(a)]>> \o rest

\* s without its repeated elements, in order of first occurrence
RECURSIVE UniqueFrom(_, _)
UniqueFrom(s, seen) ==
    IF s = <<>> THEN <<>>
    ELSE IF Head(s) \in seen THEN UniqueFrom(Tail(s), seen)
    ELSE <<Head(s)>> \o UniqueFrom(Tail(s), seen \cup {Head(s)})

\* the urls of links_and_text, in order
LinkUrls(pairs) == [i \in 1..Len(pairs) |-> pairs[i].link]

\* link_to_texts[link] after the grouping loop
TextsOf(pairs, link) ==
    UNION {pairs[i].texts : i \in {j \in 1..Len(pairs) : pairs[j].link = link}}

\* the result list: one record per key of link_to_texts, in insertion order
LinkRecords(pairs, links, base_url) ==
    [k \in 1..Len(links) |->
        [url |-> links[k],
         associated_texts |-> TextsOf(pairs, links[k]),
         found_on_url |-> base_url]]

\* the grouping of links_and_text by link, the empty link left out
GroupLinks(pairs, base_url) ==
    LinkRecords(pairs, UniqueFrom(LinkUrls(pairs), {<<>>}), base_url)

\* extract_links_with_text(html_content, base_url): one record per distinct
\* non-empty normalized link, in order of first occurrence (the insertion
\* order of the defaultdict), with the union of the texts of its anchors
extract_links_with_text(anchors, base_url) ==
    GroupLinks(LinksAndText(anchors, base_url), base_url)

\* ------------------------------------------------------------ the web site

Http(host, rest) == HttpScheme \o <<":", "/", "/">> \o host \o rest

UrlRoot == Http(<<"e">>, <<"/">>)
UrlA == Http(<<"e">>, <<"/", "a">>)
UrlASlash == Http(<<"e">>, <<"/", "a", "/">>)
UrlB == Http(<<"e">>, <<"/", "b">>)
UrlC == Http(<<"e">>, <<"/", "c">>)
UrlOther == Http(<<"o">>, <<"/", "b">>)

Anchor(href, text, title) == [href |-> href, text |-> text, title |-> title]

PageRoot ==
    << Anchor(UrlA, "A", ""),
       Anchor(<<"/", "a", "/">>, "A again", "about"),
       Anchor(UrlOther, "O", ""),
       Anchor(<<"m","a","i","l","t","o",":","x">>, "mail", ""),
       Anchor(<<"/", "b", "#", "x">>, "B", "") >>

PageA ==
    << Anchor(<<"/", "b">>, "B from a", ""),
       Anchor(UrlRoot, "home", ""),
       Anchor(<<>>, "nowhere", ""),
       Anchor(UrlOther, "O from a", ""),
       Anchor(<<"/", "c">>, "C", "") >>

PageB ==
    << Anchor(<<"/", "a">>, "A from b", ""),
       Anchor(<<"/", "c", "/">>, "", ""),
       Anchor(UrlOther, "O", "other") >>

PageC == << Anchor(<<"a">>, "A from c", "") >>

\* the anchors of the document the server holds for a URL
Page(url) ==
    CASE url = UrlRoot -> PageRoot
      [] url \in {UrlA, UrlASlash} -> PageA
      [] url = UrlB -> PageB
      [] url = UrlC -> PageC
      [] OTHER -> <<>>

\* the seeds a caller may pass to crawl()
Seeds == {UrlRoot, UrlASlash}

\* ------------------------------------------------------------------- state

VARIABLES
    pc,                 \* position of crawl(): "init", "running", "done"
    max_depth,          \* AsyncDepthCrawler.max_depth
    max_concurrent,     \* the initial value of the semaphore
    start_url,          \* the argument of crawl()
    base_domain,        \* crawl()'s local base_domain
    current_urls,       \* crawl()'s frontier
    current_depth,      \* crawl()'s depth level
    visited_urls,       \* AsyncDepthCrawler.visited_urls
    all_links,          \* AsyncDepthCrawler.all_links
    tpc,                \* per task of the level: "new", "waiting", "sleeping",
                        \* "fetching", "done"
    sleep_left,         \* per task: the time left of its asyncio.sleep
    results,            \* per task: the list process_url returned
    sem,                \* the semaphore's value (free slots)
    since_last,         \* time.time() - last_request_time, counted up to Delay
    last_gap,           \* history: since_last at the latest dispatch
    requests,           \* history: the GETs issued, in order
    completions,        \* history: the finished fetches, in order
    call,               \* a direct call of a utils.bs4 function: its arguments
    loc,                \* the local variables of that call while it runs
    ret                 \* what that call returned

vars == <<pc, max_depth, max_concurrent, start_url, base_domain, current_urls,
          current_depth, visited_urls, all_links, tpc, sleep_left, results, sem,
          since_last, last_gap, requests, completions, call, loc,
          ret>>

params == <<max_depth, max_concurrent, start_url>>
crawlerVars == <<base_domain, current_urls, current_depth>>
fetcherVars == <<sem, since_last, last_gap, requests>>
libVars == <<call, loc, ret>>

\* what the server can answer to a GET: a page with status 2xx ("ok"), a 2xx
\* response without body, a 2xx response with a body the extraction fails
\* on, a page with a final status below 400 that is not 2xx (a 3xx that is
\* no redirect to follow, such as 304 or 300), a status from 400 on, a
\* transport error, a timeout
Outcomes == {"ok", "bad_status", "client_error", "timeout", "empty_body",
             "extract_error", "other_status"}

\* the outcomes after which process_url has a page it extracts links from
PageOutcomes == {"ok", "other_status"}

Tasks == DOMAIN tpc

AllStarted == \A i \in Tasks : tpc[i] # "new"
\* a gather() that returns with the first task that is done
AnyDone == \E i \in Tasks : tpc[i] = "done"

\* gather() has all its results
AllDone == \A i \in Tasks : tpc[i] = "done"

\* ---------------------------------------------------- AsyncWebRequestHandler

\* (mutant) a gate that admits every caller
CanAcquireAlways(value) == TRUE

\* the semaphore admits a caller while its value is positive
CanAcquire(value) == value > 0

\* "self.last_request_time = time.time()" followed by the GET of task i: the
\* clock since the last dispatch restarts, and the request is on its way
Dispatch(i, url) ==
    /\ tpc' = [tpc EXCEPT ![i] = "fetching"]
    /\ since_last' = 0
    /\ last_gap' = since_last
    /\ requests' = Append(requests, [url |-> url, depth |-> current_depth])

\* the time asyncio.sleep is asked to wait when time_since_last < self.delay
SleepTime(time_since_last) == Delay - time_since_last

\* the delay check of get_content, run by task i when it holds a slot: sleep
\* for the rest of the delay, or go on to the dispatch at once
DelayOrDispatch(i, url) ==
    IF since_last < Delay
    THEN /\ tpc' = [tpc EXCEPT ![i] = "sleeping"]
         /\ sleep_left' = [sleep_left EXCEPT ![i] = SleepTime(since_last)]
         /\ UNCHANGED <<since_last, last_gap, requests>>
    ELSE /\ Dispatch(i, url)
         /\ UNCHANGED sleep_left

\* entry of get_content: take a slot if one is free, else queue on the semaphore
GetContentEnter(i, url) ==
    IF CanAcquire(sem)
    THEN /\ sem' = sem - 1
         /\ DelayOrDispatch(i, url)
    ELSE /\ tpc' = [tpc EXCEPT ![i] = "waiting"]
         /\ UNCHANGED <<sem, sleep_left, since_last, last_gap, requests>>

\* the value None
None == [is_none |-> TRUE, is_empty |-> TRUE, anchors |-> <<>>, malformed |-> FALSE]

\* (mutant) get_content without raise_for_status: the body of a non-2xx
\* response is returned like any other
get_content_no_status_check(url, outcome) ==
    IF outcome \in {"client_error", "timeout"}
    THEN None
    ELSE [is_none |-> FALSE,
          is_empty |-> (outcome = "empty_body"),
          anchors |-> IF outcome = "empty_body" THEN <<>> ELSE Page(url),
          malformed |-> (outcome = "extract_error")]

\* what get_content returns for an outcome of the GET: None when the request
\* raised (transport error, timeout, raise_for_status on a status from 400
\* on), else the body read from the response
get_content(url, outcome) ==
    IF outcome \in {"bad_status", "client_error", "timeout"}
    THEN None
    ELSE [is_none |-> FALSE,
          is_empty |-> (outcome = "empty_body"),
          anchors |-> IF outcome = "empty_body" THEN <<>> ELSE Page(url),
          malformed |-> (outcome = "extract_error")]

\* Python's "not content" for the value get_content returned
NotContent(content) == content.is_none \/ content.is_empty

\* ----------------------------------------------------------- AsyncDepthCrawler

HttpsPrefix == <<"h","t","t","p","s",":","/","/">>

\* (mutant) a domain check that lets every URL through
is_same_domain_always(url1, url2) == TRUE

is_same_domain(url1, url2) == urlparse(url1).netloc = urlparse(url2).netloc

\* (mutant) the visited set is never added to
MarkVisitedLost(visited, url) == visited

\* self.visited_urls.add(url)
MarkVisited(visited, url) == visited \cup {url}

\* a new record tagged with the level after the one it was found at
InsertLinkAtNextDepth(registry, link_data, depth) ==
    [u \in DOMAIN registry \cup {link_data.url} |->
        IF u = link_data.url
        THEN [url |-> link_data.url,
              associated_texts |-> link_data.associated_texts,
              found_on_urls |-> <<link_data.found_on_url>>,
              depth_found |-> depth + 1]
        ELSE registry[u]]

\* the registry with a new record for link_data, found at depth
InsertLink(registry, link_data, depth) ==
    [u \in DOMAIN registry \cup {link_data.url} |->
        IF u = link_data.url
        THEN [url |-> link_data.url,
              associated_texts |-> link_data.associated_texts,
              found_on_urls |-> <<link_data.found_on_url>>,
              depth_found |-> depth]
        ELSE registry[u]]

\* (mutant) the source list of an existing record is replaced, not extended
UpdateLinkOverwrite(registry, link_data) ==
    [registry EXCEPT ![link_data.url].found_on_urls = <<link_data.found_on_url>>]

\* the registry after the else branch: the page is appended to the record's
\* found_on_urls unless it is in it; nothing else of the record changes
UpdateLink(registry, link_data) ==
    IF \A k \in DOMAIN registry[link_data.url].found_on_urls :
          registry[link_data.url].found_on_urls[k] # link_data.found_on_url
    THEN [registry EXCEPT ![link_data.url].found_on_urls =
                              Append(@, link_data.found_on_url)]
    ELSE registry

\* (mutant) a rediscovered link takes the depth of the rediscovery
MergeLinkResetDepth(registry, link_data, depth) ==
    IF link_data.url \notin DOMAIN registry
    THEN InsertLink(registry, link_data, depth)
    ELSE [UpdateLink(registry, link_data) EXCEPT ![link_data.url].depth_found = depth]

\* (mutant) links to other domains are left out of the registry
MergeLinkSameDomainOnly(registry, link_data, depth) ==
    IF ~is_same_domain(link_data.url, HttpsPrefix \o base_domain)
    THEN registry
    ELSE IF link_data.url \notin DOMAIN registry
    THEN InsertLink(registry, link_data, depth)
    ELSE UpdateLink(registry, link_data)

\* the registry after the if/else on one extracted link
MergeLink(registry, link_data, depth) ==
    IF link_data.url \notin DOMAIN registry
    THEN InsertLink(registry, link_data, depth)
    ELSE UpdateLink(registry, link_data)

\* the test without its depth part: links are collected at every level
CollectsNextAtAnyDepth(link_url, depth, visited) == link_url \notin visited

\* whether the loop appends an extracted link to next_level_urls
CollectsNext(link_url, depth, visited) ==
    depth < max_depth - 1 /\ link_url \notin visited

\* the loop over extracted_links: the registry and next_level_urls after it
RECURSIVE ProcessLinks(_, _, _, _, _)
ProcessLinks(links, registry, next_level_urls, depth, visited) ==
    IF links = <<>>
    THEN [registry |-> registry, next_level_urls |-> next_level_urls]
    ELSE ProcessLinks(Tail(links),
                      MergeLink(registry, Head(links), depth),
                      IF CollectsNext(Head(links).url, depth, visited)
                      THEN Append(next_level_urls, Head(links).url)
                      ELSE next_level_urls,
                      depth, visited)

\* a registry update that is lost when a sibling's fetch is in flight
StoreProcessedUnlessRacing(i, done) ==
    /\ all_links' = IF \E j \in Tasks \ {i} : tpc[j] = "fetching"
                    THEN all_links ELSE done.registry
    /\ results' = [results EXCEPT ![i] = done.next_level_urls]

\* the end of process_url for task i: the registry and the task's result
\* after the loop over the extracted links
StoreProcessed(i, done) ==
    /\ all_links' = done.registry
    /\ results' = [results EXCEPT ![i] = done.next_level_urls]

\* process_url after get_content returned content: "return []" without
\* content; nothing added when extract_links_with_text raises (it is called
\* before the loop); else the loop over the extracted links
ProcessContent(i, url, content) ==
    IF NotContent(content) \/ content.malformed
    THEN /\ results' = [results EXCEPT ![i] = <<>>]
         /\ UNCHANGED all_links
    ELSE StoreProcessed(i, ProcessLinks(extract_links_with_text(content.anchors, url),
                                        all_links, <<>>, current_depth, visited_urls))

\* the list crawl_depth_level returns: the tasks' results concatenated in
\* task order, without repeats
RECURSIVE Concat(_)
Concat(lists) ==
    IF lists = <<>> THEN <<>> ELSE Head(lists) \o Concat(Tail(lists))

\* the next frontier without the removal of duplicates
next_level_urls_of(task_results) == Concat(task_results)

\* the next frontier taken from the first task's result alone
first_task_urls(task_results) ==
    IF task_results = <<>> THEN <<>> ELSE UniqueFrom(Head(task_results), {})

unique_next_urls(task_results) == UniqueFrom(Concat(task_results), {})

\* the tasks gather() creates for a frontier, none of them started
LaunchLevel(urls) ==
    /\ tpc' = [i \in 1..Len(urls) |-> "new"]
    /\ sleep_left' = [i \in 1..Len(urls) |-> 0]
    /\ results' = [i \in 1..Len(urls) |-> <<>>]

\* the loop test without its depth bound
LoopContinuesNoDepthBound(urls, depth) == urls # <<>>

\* the test of crawl()'s while loop (and of crawl_depth_level's first line)
LoopContinues(urls, depth) == urls # <<>> /\ depth < max_depth

-----------------------------------------------------------------------------

\* the crawler crawl_url_depth constructs, crawl() not yet called
Constructed ==
    /\ pc = "init"
    /\ max_depth \in 0..MaxDepth
    /\ max_concurrent \in 1..MaxConcurrent
    /\ start_url \in Seeds
    /\ base_domain = <<>>
    /\ current_urls = <<>>
    /\ current_depth = 0
    /\ visited_urls = {}
    /\ all_links = <<>>
    /\ tpc = <<>>
    /\ sleep_left = <<>>
    /\ results = <<>>
    /\ sem = max_concurrent
    /\ since_last = Delay   \* time.time() is far beyond last_request_time = 0
    /\ last_gap = Delay
    /\ requests = <<>>
    /\ completions = <<>>

Init == Constructed /\ call = <<>> /\ loc = <<>> /\ ret = <<>>

\* crawl(start_url) up to its first gather(), or to its return
Crawl ==
    /\ pc = "init"
    /\ base_domain' = urlparse(start_url).netloc
    /\ current_urls' = <<start_url>>
    /\ current_depth' = 0
    /\ IF LoopContinues(<<start_url>>, 0)
       THEN pc' = "running" /\ LaunchLevel(<<start_url>>)
       ELSE pc' = "done" /\ UNCHANGED <<tpc, sleep_left, results>>
    /\ UNCHANGED <<params, libVars, visited_urls, all_links, fetcherVars, completions>>

\* the first run of task i, up to its first suspension: the event loop runs
\* the tasks of a level in the order gather() created them
StartTask(i) ==
    /\ pc = "running"
    /\ i \in Tasks
    /\ tpc[i] = "new"
    /\ \A j \in 1..(i - 1) : tpc[j] # "new"
    /\ LET url == current_urls[i]
       IN IF ~is_same_domain(url, HttpsPrefix \o base_domain) \/ url \in visited_urls
          THEN /\ tpc' = [tpc EXCEPT ![i] = "done"]
               /\ results' = [results EXCEPT ![i] = <<>>]
               /\ UNCHANGED <<visited_urls, sleep_left, fetcherVars>>
          ELSE /\ visited_urls' = MarkVisited(visited_urls, url)
               /\ GetContentEnter(i, url)
               /\ UNCHANGED results
    /\ UNCHANGED <<pc, params, libVars, crawlerVars, all_links, completions>>

\* a task queued on the semaphore gets a slot
Acquire(i) ==
    /\ pc = "running"
    /\ i \in Tasks
    /\ tpc[i] = "waiting"
    /\ AllStarted
    /\ CanAcquire(sem)
    /\ sem' = sem - 1
    /\ DelayOrDispatch(i, current_urls[i])
    /\ UNCHANGED <<pc, params, libVars, crawlerVars, visited_urls, all_links, results,
                   completions>>

\* the asyncio.sleep of task i ends: it writes the timestamp and issues the GET
Wake(i) ==
    /\ pc = "running"
    /\ i \in Tasks
    /\ tpc[i] = "sleeping"
    /\ AllStarted
    /\ sleep_left[i] = 0
    /\ Dispatch(i, current_urls[i])
    /\ UNCHANGED <<pc, params, libVars, crawlerVars, visited_urls, all_links, sleep_left,
                   results, sem, completions>>

\* a release that is skipped when the request raised
ReleaseUnlessRaised(value, outcome) ==
    IF outcome \in {"client_error", "timeout", "bad_status"} THEN value ELSE value + 1

\* the exit of "async with self.semaphore", on return and on exception alike
Release(value, outcome) == value + 1

\* the GET of task i ends with some outcome: get_content releases the slot and
\* returns, and process_url runs to its end without suspending
FetchDone(i, outcome) ==
    /\ pc = "running"
    /\ i \in Tasks
    /\ tpc[i] = "fetching"
    /\ AllStarted
    /\ sem' = Release(sem, outcome)
    /\ tpc' = [tpc EXCEPT ![i] = "done"]
    /\ completions' = Append(completions,
           [url |-> current_urls[i], depth |-> current_depth,
            ok |-> (outcome \in PageOutcomes)])
    /\ ProcessContent(i, current_urls[i], get_content(current_urls[i], outcome))
    /\ UNCHANGED <<pc, params, libVars, crawlerVars, visited_urls, sleep_left,
                   since_last, last_gap, requests>>

\* gather() returns: crawl_depth_level builds the next frontier, and crawl()
\* goes round its loop to the next gather(), or returns
LevelEnd ==
    /\ pc = "running"
    /\ AllDone
    /\ LET next_urls == unique_next_urls(results)
       IN /\ current_urls' = next_urls
          /\ current_depth' = current_depth + 1
          /\ IF LoopContinues(next_urls, current_depth + 1)
             THEN pc' = "running" /\ LaunchLevel(next_urls)
             ELSE pc' = "done" /\ LaunchLevel(<<>>)
    /\ UNCHANGED <<params, libVars, base_domain, visited_urls, all_links, fetcherVars,
                   completions>>

\* one unit of time passes while the tasks are suspended (the first runs of
\* the tasks of a level are one pass of the event loop): the clock since the
\* last dispatch counts up to Delay (beyond it no decision of the program
\* depends on it) and the running sleeps get shorter
Tick ==
    /\ pc = "running"
    /\ AllStarted
    /\ \/ since_last < Delay
       \/ \E i \in Tasks : tpc[i] = "sleeping" /\ sleep_left[i] > 0
    /\ since_last' = IF since_last < Delay THEN since_last + 1 ELSE Delay
    /\ sleep_left' = [i \in Tasks |->
                        IF tpc[i] = "sleeping" /\ sleep_left[i] > 0
                        THEN sleep_left[i] - 1 ELSE sleep_left[i]]
    /\ UNCHANGED <<pc, params, libVars, crawlerVars, visited_urls, all_links, tpc,
                   results, sem, last_gap, requests, completions>>

Next ==
    \/ Crawl
    \/ \E i \in Tasks : StartTask(i)
    \/ \E i \in Tasks : Acquire(i)
    \/ \E i \in Tasks : Wake(i)
    \/ \E i \in Tasks, outcome \in Outcomes : FetchDone(i, outcome)
    \/ LevelEnd
    \/ Tick

Spec == Init /\ [][Next]_vars

\* the first run of task i, which gather() has scheduled: the task leaves
\* "new" (the step StartTask(i) takes)
Started(i) ==
    /\ pc = "running"
    /\ i \in Tasks
    /\ tpc[i] = "new"
    /\ \E to \in {"waiting", "sleeping", "fetching", "done"} :
          tpc' = [tpc EXCEPT ![i] = to]

\* the request of task i comes back, with a response or with a failure (the
\* step FetchDone(i, outcome) takes, whatever the outcome)
Returned(i) ==
    /\ pc = "running"
    /\ i \in Tasks
    /\ tpc[i] = "fetching"
    /\ AllStarted
    /\ tpc' = [tpc EXCEPT ![i] = "done"]

\* The event loop runs every task that is ready (crawl() itself, a new task,
\* a task that can take a semaphore slot, a task whose sleep has expired, the
\* gather() whose tasks are all done), time passes, and every request that
\* was sent comes back.
Fairness ==
    /\ WF_vars(Crawl)
    /\ WF_tpc(\E i \in Tasks : Started(i))
    /\ WF_vars(\E i \in Tasks : Acquire(i))
    /\ WF_vars(\E i \in Tasks : Wake(i))
    /\ WF_tpc(\E i \in Tasks : Returned(i))
    /\ WF_vars(LevelEnd)
    /\ WF_vars(Tick)

FairSpec == Init /\ [][Next]_vars /\ Fairness

-----------------------------------------------------------------------------
\* normalize_url called directly

\* the paths, queries and fragments the URLs of the calls are made of
NormalizePaths ==
    { <<>>, <<"/">>, <<"/", "a">>, <<"/", "/">>, <<"/", "a", "/">>,
      <<"/", "a", "a">>, <<"/", "/", "a">>, <<"/", "a", "/", "/">>,
      <<"/", "a", "/", "a">>, <<"/", "a", "/", "a", "/">> }
NormalizeQueries == { <<>>, <<"?">>, <<"?", "q">>, <<"?", "q", "/">> }
NormalizeFragments == { <<>>, <<"#">>, <<"#", "f">>, <<"#", "f", "/">> }

\* the url arguments: absolute URLs and relative references
NormalizeUrls ==
    { prefix \o path \o query \o fragment :
        prefix \in {<<>>, Http(<<"e">>, <<>>)}, path \in NormalizePaths,
        query \in NormalizeQueries, fragment \in NormalizeFragments }

\* the base_url arguments; <<>> is a call without base
NormalizeBases == { <<>>, Http(<<"e">>, <<"/", "b", "/", "c">>) }

\* how often the result is passed to normalize_url again
MaxRepeat == 2

NormalizeInit ==
    /\ Constructed
    /\ max_depth = 0
    /\ max_concurrent = 1
    /\ start_url = UrlRoot
    /\ call \in [url : NormalizeUrls, base_url : NormalizeBases]
    /\ loc = <<>>
    /\ ret = <<>>

\* normalize_url(url, base_url)
NormalizeCall ==
    /\ ret = <<>>
    /\ ret' = <<normalize_url(call.url, call.base_url)>>
    /\ UNCHANGED <<pc, params, crawlerVars, visited_urls, all_links, tpc,
                   sleep_left, results, fetcherVars, completions, call, loc>>

\* normalize_url(u) of a URL u that normalize_url returned; ret holds the
\* URLs returned so far, in order
NormalizeAgain ==
    /\ ret # <<>>
    /\ Len(ret) < MaxRepeat
    /\ ret' = Append(ret, normalize_url(ret[Len(ret)], <<>>))
    /\ UNCHANGED <<pc, params, crawlerVars, visited_urls, all_links, tpc,
                   sleep_left, results, fetcherVars, completions, call, loc>>

NormalizeNext == NormalizeCall \/ NormalizeAgain

NormalizeSpec == NormalizeInit /\ [][NormalizeNext]_vars

-----------------------------------------------------------------------------
\* Parsed documents (BeautifulSoup(html_content, "html.parser"))

\* A document is the sequence of its tags in document order. Tag n has the
\* index of its parent tag in .parent; 0 is the BeautifulSoup object itself,
\* the parent of the top-level tags. A tag holds either text (.string) or
\* child tags.
Tag(name, parent, class, id, role, aria_label, string) ==
    [name |-> name, parent |-> parent, class |-> class, id |-> id,
     role |-> role, aria_label |-> aria_label, string |-> string]

\* the BeautifulSoup object: a Tag named "[document]" without attributes
Soup == 0

TagsOf(d) == 1..Len(d)

NameOf(d, n) == IF n = Soup THEN "[document]" ELSE d[n].name

\* tag.get(key, ""), with the class list joined by " "
Attr(d, n, key) == IF n = Soup THEN "" ELSE d[n][key]

\* tag.contents, in document order
Contents(d, n) == SelectSeq([i \in 1..Len(d) |-> i], LAMBDA i : d[i].parent = n)

\* whether tag a is among tag n's parents
RECURSIVE IsParentOf(_, _, _)
IsParentOf(d, a, n) ==
    n # Soup /\ (d[n].parent = a \/ IsParentOf(d, a, d[n].parent))

\* tag.find_all(True): the tags below n
FindAll(d, n) == {m \in TagsOf(d) : IsParentOf(d, n, m)}

\* Tag.__eq__: the same name, the same attributes and equal contents; sets
\* and "in" compare tags with it (equal tags have the same hash, of str(tag))
RECURSIVE TagEq(_, _, _)
TagEq(d, m, n) ==
    \/ m = n
    \/ /\ m # Soup
       /\ n # Soup
       /\ d[m].name = d[n].name
       /\ d[m].class = d[n].class
       /\ d[m].id = d[n].id
       /\ d[m].role = d[n].role
       /\ d[m].aria_label = d[n].aria_label
       /\ d[m].string = d[n].string
       /\ Len(Contents(d, m)) = Len(Contents(d, n))
       /\ \A i \in 1..Len(Contents(d, m)) :
             TagEq(d, Contents(d, m)[i], Contents(d, n)[i])

\* tag.string: the text of a tag that holds text, the .string of the only
\* child of a tag that has one child, else None ("" stands for None and for
\* the empty text, both false in a condition)
RECURSIVE StringOf(_, _)
StringOf(d, n) ==
    IF Contents(d, n) = <<>> THEN d[n].string
    ELSE IF Len(Contents(d, n)) = 1 THEN StringOf(d, Contents(d, n)[1])
    ELSE ""

\* tag.get_text(): the texts below the tag, joined
RECURSIVE JoinTexts(_, _)
JoinTexts(d, tags) ==
    IF tags = <<>> THEN ""
    ELSE (d[Head(tags)].string \o JoinTexts(d, Contents(d, Head(tags))))
         \o JoinTexts(d, Tail(tags))

GetText(d, n) == JoinTexts(d, <<n>>)

\* the attribute text of a tag in str(tag)
AttrLen(key, value) == IF value = "" THEN 0 ELSE Len(key) + Len(value) + 4

\* len(str(tag)): "<name attrs>", the contents, "</name>"; the BeautifulSoup
\* object adds nothing to its contents
RECURSIVE StrLen(_, _)
RECURSIVE StrLenAll(_, _)
StrLen(d, n) ==
    IF n = Soup THEN StrLenAll(d, Contents(d, n))
    ELSE 2 * Len(d[n].name) + 5
         + AttrLen("class", d[n].class) + AttrLen("id", d[n].id)
         + AttrLen("role", d[n].role) + AttrLen("aria-label", d[n].aria_label)
         + Len(d[n].string) + StrLenAll(d, Contents(d, n))
StrLenAll(d, tags) ==
    IF tags = <<>> THEN 0 ELSE StrLen(d, Head(tags)) + StrLenAll(d, Tail(tags))

\* ------------------------------------------------------------ str methods

UpperCase == "ABCDEFGHIJKLMNOPQRSTUVWXYZ"
LowerCase == "abcdefghijklmnopqrstuvwxyz"
Digits == "0123456789"

CharAt(s, i) == SubSeq(s, i, i)

IndexIn(alphabet, c) == {i \in 1..Len(alphabet) : CharAt(alphabet, i) = c}

LowerChar(c) ==
    IF IndexIn(UpperCase, c) = {} THEN c
    ELSE CharAt(LowerCase, Min(IndexIn(UpperCase, c)))

\* s.lower(), and what re.I makes of the text searched
RECURSIVE Lower(_)
Lower(s) == IF s = "" THEN "" ELSE LowerChar(CharAt(s, 1)) \o Lower(Drop(s, 2))

\* s.strip()
RECURSIVE LStrip(_)
LStrip(s) == IF s # "" /\ CharAt(s, 1) = " " THEN LStrip(Drop(s, 2)) ELSE s
RECURSIVE RStrip(_)
RStrip(s) ==
    IF s # "" /\ CharAt(s, Len(s)) = " " THEN RStrip(Take(s, Len(s) - 1)) ELSE s
Strip(s) == RStrip(LStrip(s))

\* s.isdigit()
IsDigit(s) == s # "" /\ \A i \in 1..Len(s) : IndexIn(Digits, CharAt(s, i)) # {}

\* pattern.search(s) for a pattern that is an alternation of plain words
SearchAny(words, s) == \E w \in words : Contains(s, w)

-----------------------------------------------------------------------------
\* find_pagination_candidates

\* keyword_selectors, structural_selectors and load_more_selectors, in the
\* order of all_selectors, and after them the test of Heuristic 2
NavUlLiA(d, n) ==
    /\ NameOf(d, n) = "a"
    /\ \E li, ul, nav \in TagsOf(d) :
          /\ d[li].name = "li" /\ d[ul].name = "ul" /\ d[nav].name = "nav"
          /\ IsParentOf(d, li, n) /\ IsParentOf(d, ul, li) /\ IsParentOf(d, nav, ul)

SoupContains(d, n, name, text) == NameOf(d, n) = name /\ Contains(GetText(d, n), text)

next_prev_texts ==
    {"next", "previous", "prev", "back", "more", "older", "newer",
     "continuar", "siguiente", "anterior"}

\* the symbols of next_prev_symbols that are in the alphabet of the texts
next_prev_symbols == {">", "<"}

\* Heuristic 2: a link or button whose text, or else ARIA label, is
\* next/previous vocabulary, or whose text is a number
PaginationText(d, n) ==
    /\ NameOf(d, n) \in {"a", "button"}
    /\ \/ /\ StringOf(d, n) # ""
          /\ \/ SearchAny(next_prev_texts, Lower(StringOf(d, n)))
             \/ Strip(StringOf(d, n)) \in next_prev_symbols
       \/ /\ Attr(d, n, "aria_label") # ""
          /\ SearchAny(next_prev_texts, Lower(Attr(d, n, "aria_label")))
       \/ StringOf(d, n) # "" /\ IsDigit(Strip(StringOf(d, n)))

PaginationHeuristics == 1..14

PaginationMatch(d, n, k) ==
    CASE k = 1 -> Contains(Attr(d, n, "class"), "pagination")
      [] k = 2 -> Contains(Attr(d, n, "id"), "pagination")
      [] k = 3 -> Contains(Attr(d, n, "class"), "pager")
      [] k = 4 -> Contains(Attr(d, n, "id"), "pager")
      [] k = 5 -> Contains(Attr(d, n, "class"), "pages")
      [] k = 6 -> Contains(Attr(d, n, "id"), "pages")
      [] k = 7 -> Contains(Attr(d, n, "aria_label"), "pagination")
      [] k = 8 -> Attr(d, n, "role") = "navigation"
      [] k = 9 -> NavUlLiA(d, n)
      [] k = 10 -> SoupContains(d, n, "button", "Load more")
      [] k = 11 -> SoupContains(d, n, "button", "Show more")
      [] k = 12 -> SoupContains(d, n, "a", "Load more")
      [] k = 13 -> SoupContains(d, n, "a", "Show more")
      [] OTHER -> PaginationText(d, n)

PaginationElement(d, n) == \E k \in PaginationHeuristics : PaginationMatch(d, n, k)

\* the first heuristic that adds tag n to candidate_elements
FirstMatch(d, n) == Min({k \in PaginationHeuristics : PaginationMatch(d, n, k)})

\* whether tag m is added to candidate_elements before tag n (a selector
\* yields its tags in document order)
AddedBefore(d, m, n) ==
    \/ FirstMatch(d, m) < FirstMatch(d, n)
    \/ FirstMatch(d, m) = FirstMatch(d, n) /\ m < n

\* candidate_elements after the heuristics: a set keeps the first of equal tags
PaginationElements(d) ==
    {n \in TagsOf(d) :
        /\ PaginationElement(d, n)
        /\ ~\E m \in TagsOf(d) :
              m # n /\ PaginationElement(d, m) /\ TagEq(d, m, n) /\ AddedBefore(d, m, n)}

\* "for _ in range(5)"
PaginationParents == 5

\* the test of the walk: a parent with a pagination class or id, or with the
\* navigation role
PaginationContainer(d, parent) ==
    \/ SearchAny({"pagination", "pager"}, Lower(Attr(d, parent, "class")))
    \/ SearchAny({"pagination", "pager"}, Lower(Attr(d, parent, "id")))
    \/ Attr(d, parent, "role") = "navigation"

\* the walk up from container with so many rounds of the loop left; the
\* BeautifulSoup object has no parent, every tag has one (that object at the
\* top)
RECURSIVE PaginationWalk(_, _, _)
PaginationWalk(d, container, rounds) ==
    IF rounds = 0 \/ container = Soup THEN container
    ELSE IF PaginationContainer(d, d[container].parent) THEN d[container].parent
    ELSE PaginationWalk(d, d[container].parent, rounds - 1)

\* set.add(tag)
AddTag(d, tags, n) == IF \E m \in tags : TagEq(d, m, n) THEN tags ELSE tags \cup {n}

\* is_redundant: container is (equal to) a tag below a container taken before
IsRedundant(d, container, final_containers) ==
    \E i \in DOMAIN final_containers :
        \E m \in FindAll(d, final_containers[i]) : TagEq(d, container, m)

preserve_text_tags == {"a", "button", "span", "option", "label"}

\* the snippet of a container: BeautifulSoup(str(container)) has the
\* container as its top-level tag (the top-level tags of the document when
\* the container is the BeautifulSoup object), and the texts of the tags
\* outside preserve_text_tags are replaced by " "
Snippet(d, container, keep) ==
    [top |-> IF container = Soup THEN Contents(d, Soup) ELSE <<container>>,
     blanked |-> {n \in FindAll(d, container) \cup ({container} \ {Soup}) :
                      d[n].name \notin keep /\ Strip(d[n].string) # ""}]

\* final_containers[:max_candidates]
FirstOf(s, max_candidates) == SubSeq(s, 1, Min({Len(s), max_candidates}))

\* ------------------------------------------------------------- documents

Link(parent, string) == Tag("a", parent, "", "", "", "", string)
Plain(name, parent) == Tag(name, parent, "", "", "", "", "")

\* <nav class="pagination"> with one link per text, and nothing else
PaginationNav(texts) ==
    <<Tag("nav", Soup, "pagination", "", "", "", "")>>
        \o [i \in 1..Len(texts) |-> Link(1, texts[i])]

\* the texts of the links of such documents: page numbers and a Next link
PageLinkTexts ==
    { <<"1", "Next >>">>, <<"1", "2", "Next >>">>, <<"1", "2", "3", "Next">> }

\* the same control inside <html><body>
WrappedNav ==
    << Plain("html", Soup), Plain("body", 1),
       Tag("nav", 2, "pagination", "", "", "", ""),
       Link(3, "1"), Link(3, "Next") >>

\* <div id="pager"><ul><li><a>1</a></li><li><a>2</a></li></ul></div>
PagerList ==
    << Tag("div", Soup, "", "pager", "", "", ""), Plain("ul", 1),
       Plain("li", 2), Link(3, "1"), Plain("li", 2), Link(5, "2") >>

\* a menu: <nav><ul><li><a>home</a></li><li><a>about</a></li></ul></nav>
NavMenu ==
    << Plain("nav", Soup), Plain("ul", 1),
       Plain("li", 2), Link(3, "home"), Plain("li", 2), Link(5, "about") >>

\* <p>intro</p><div role="navigation"><button>Load more</button></div>
LoadMore ==
    << Tag("p", Soup, "", "", "", "", "intro"),
       Tag("div", Soup, "", "", "navigation", "", ""),
       Tag("button", 2, "", "", "", "", "Load more") >>

\* a link seven levels down, below a <section class="Pager-Top">
DeepLink ==
    << Tag("section", Soup, "Pager-Top", "", "", "", ""),
       Plain("div", 1), Plain("div", 2), Plain("div", 3), Plain("div", 4),
       Plain("div", 5), Plain("div", 6), Link(7, "older posts") >>

\* two equal links, and a button with an ARIA label only
Twins ==
    << Plain("div", Soup), Link(1, "2"), Link(1, "2"),
       Tag("button", 1, "", "", "", "Next page", "") >>

\* nothing that looks like pagination
NoSignal == << Plain("div", Soup), Link(1, "home"), Tag("span", 1, "", "", "", "", " > ") >>

\* <div class="Pager"><nav role="navigation"><a>Next</a></nav><p>page 1</p></div>
NestedPager ==
    << Tag("div", Soup, "Pager", "", "", "", ""),
       Tag("nav", 1, "", "", "navigation", "", ""), Link(2, "Next"),
       Tag("p", 1, "", "", "", "", "page 1") >>

PaginationDocuments ==
    {PaginationNav(texts) : texts \in PageLinkTexts}
        \cup {WrappedNav, PagerList, NavMenu, LoadMore, DeepLink, Twins, NoSignal,
              NestedPager}

\* the default of max_candidates
DefaultMaxCandidates == 5

\* --------------------------------------------------------- the call, by step

PaginationInit ==
    /\ Constructed
    /\ max_depth = 0
    /\ max_concurrent = 1
    /\ start_url = UrlRoot
    /\ call \in [html_content : PaginationDocuments,
                 max_candidates : {1, DefaultMaxCandidates}]
    /\ loc = [stage |-> "heuristics", candidate_elements |-> {}, iterated |-> {},
              candidate_containers |-> {}, filtered |-> {},
              final_containers |-> <<>>]
    /\ ret = <<>>

\* the heuristics fill candidate_elements
GatherElements ==
    /\ loc.stage = "heuristics"
    /\ loc' = [loc EXCEPT !.stage = "containers",
                          !.candidate_elements = PaginationElements(call.html_content)]
    /\ UNCHANGED <<pc, params, crawlerVars, visited_urls, all_links, tpc,
                   sleep_left, results, fetcherVars, completions, call, ret>>

\* one round of "for element in candidate_elements": a set is iterated in
\* the order of the hashes of its members, which differs from run to run
Consolidate(element) ==
    /\ loc.stage = "containers"
    /\ element \in loc.candidate_elements \ loc.iterated
    /\ loc' = [loc EXCEPT
                 !.iterated = @ \cup {element},
                 !.candidate_containers =
                     AddTag(call.html_content, @,
                            PaginationWalk(call.html_content, element,
                                           PaginationParents))]
    /\ UNCHANGED <<pc, params, crawlerVars, visited_urls, all_links, tpc,
                   sleep_left, results, fetcherVars, completions, call, ret>>

\* one round of "for container in sorted_containers": the containers come by
\* ascending len(str(x)), containers of the same length in the order in
\* which the set candidate_containers is iterated
FilterContainer(container) ==
    /\ loc.stage = "containers"
    /\ loc.iterated = loc.candidate_elements
    /\ container \in loc.candidate_containers \ loc.filtered
    /\ \A other \in loc.candidate_containers \ loc.filtered :
          StrLen(call.html_content, container) <= StrLen(call.html_content, other)
    /\ loc' = [loc EXCEPT
                 !.filtered = @ \cup {container},
                 !.final_containers =
                     IF IsRedundant(call.html_content, container, @)
                     THEN @ ELSE Append(@, container)]
    /\ UNCHANGED <<pc, params, crawlerVars, visited_urls, all_links, tpc,
                   sleep_left, results, fetcherVars, completions, call, ret>>

\* the snippets of the first max_candidates containers are returned
GenerateSnippets ==
    /\ loc.stage = "containers"
    /\ loc.iterated = loc.candidate_elements
    /\ loc.filtered = loc.candidate_containers
    /\ loc' = [loc EXCEPT !.stage = "returned"]
    /\ ret' = [i \in DOMAIN FirstOf(loc.final_containers, call.max_candidates) |->
                  Snippet(call.html_content, loc.final_containers[i],
                          preserve_text_tags)]
    /\ UNCHANGED <<pc, params, crawlerVars, visited_urls, all_links, tpc,
                   sleep_left, results, fetcherVars, completions, call>>

PaginationNext ==
    \/ GatherElements
    \/ \E element \in TagsOf(call.html_content) : Consolidate(element)
    \/ \E container \in {Soup} \cup TagsOf(call.html_content) : FilterContainer(container)
    \/ GenerateSnippets

PaginationSpec == PaginationInit /\ [][PaginationNext]_vars

-----------------------------------------------------------------------------
\* find_cookie_consent_candidates

\* tag.get(key) for an attribute the tags of a document may not carry
TagAttr(d, n, key) == IF n # Soup /\ key \in DOMAIN d[n] THEN d[n][key] ELSE ""

\* the words of the alternation of accept_texts
accept_words ==
    {"accept", "agree", "allow", "ok", "got it", "i understand",
     "continue to site", "ja", "akzeptieren", "zustimmen", "einverstanden",
     "acepto", "aceptar"}

\* accept_texts.search(s): the pattern is the raw string r"\\b(...)\\b", in
\* which "\\" is the regular expression for one backslash and the "b" after
\* it is the letter b: a match is a backslash, a "b", one of the words, a
\* backslash and a "b", in any case (re.I)
accept_texts(s) == SearchAny({("\\b" \o w) \o "\\b" : w \in accept_words}, Lower(s))

\* Heuristic 2: a link or button whose text, or else ARIA label, matches
\* accept_texts
CookieText(d, n) ==
    /\ NameOf(d, n) \in {"a", "button"}
    /\ \/ StringOf(d, n) # "" /\ accept_texts(StringOf(d, n))
       \/ Attr(d, n, "aria_label") # "" /\ accept_texts(Attr(d, n, "aria_label"))

\* keyword_selectors and role_selectors, in the order of all_selectors, and
\* after them the test of Heuristic 2
CookieHeuristics == 1..23

CookieMatch(d, n, k) ==
    CASE k = 1 -> Contains(Attr(d, n, "class"), "cookie")
      [] k = 2 -> Contains(Attr(d, n, "id"), "cookie")
      [] k = 3 -> Contains(Attr(d, n, "class"), "consent")
      [] k = 4 -> Contains(Attr(d, n, "id"), "consent")
      [] k = 5 -> Contains(Attr(d, n, "class"), "banner")
      [] k = 6 -> Contains(Attr(d, n, "id"), "banner")
      [] k = 7 -> Contains(Attr(d, n, "class"), "cmp")
      [] k = 8 -> Contains(Attr(d, n, "id"), "cmp")
      [] k = 9 -> Contains(Attr(d, n, "class"), "dialog")
      [] k = 10 -> Contains(Attr(d, n, "id"), "dialog")
      [] k = 11 -> Contains(Attr(d, n, "aria_label"), "cookie")
      [] k = 12 -> Contains(Attr(d, n, "aria_label"), "consent")
      [] k = 13 -> Contains(TagAttr(d, n, "aria_labelledby"), "cookie")
      [] k = 14 -> Contains(TagAttr(d, n, "aria_describedby"), "cookie")
      [] k = 15 -> Contains(TagAttr(d, n, "aria_labelledby"), "consent")
      [] k = 16 -> Contains(TagAttr(d, n, "aria_describedby"), "consent")
      [] k = 17 -> Contains(Attr(d, n, "id"), "onetrust")
      [] k = 18 -> Contains(Attr(d, n, "class"), "onetrust")
      [] k = 19 -> Contains(Attr(d, n, "id"), "cookiebot")
      [] k = 20 -> Contains(Attr(d, n, "class"), "cookiebot")
      [] k = 21 -> Attr(d, n, "role") = "dialog"
      [] k = 22 -> Attr(d, n, "role") = "alertdialog"
      [] OTHER -> CookieText(d, n)

CookieElement(d, n) == \E k \in CookieHeuristics : CookieMatch(d, n, k)

\* the first heuristic that adds tag n to candidate_elements
CookieFirstMatch(d, n) == Min({k \in CookieHeuristics : CookieMatch(d, n, k)})

\* whether tag m is added to candidate_elements before tag n
CookieAddedBefore(d, m, n) ==
    \/ CookieFirstMatch(d, m) < CookieFirstMatch(d, n)
    \/ CookieFirstMatch(d, m) = CookieFirstMatch(d, n) /\ m < n

\* candidate_elements after the heuristics: a set keeps the first of equal tags
CookieElements(d) ==
    {n \in TagsOf(d) :
        /\ CookieElement(d, n)
        /\ ~\E m \in TagsOf(d) :
              /\ m # n /\ CookieElement(d, m) /\ TagEq(d, m, n)
              /\ CookieAddedBefore(d, m, n)}

\* "for _ in range(5)"
CookieParents == 5

cookie_keywords == {"cookie", "consent", "banner", "dialog", "cmp"}

\* the test of the walk: a parent with a cookie class or id, or with a
\* dialog role
CookieContainer(d, parent) ==
    \/ SearchAny(cookie_keywords, Lower(Attr(d, parent, "class")))
    \/ SearchAny(cookie_keywords, Lower(Attr(d, parent, "id")))
    \/ Lower(Attr(d, parent, "role")) \in {"dialog", "alertdialog"}

\* a walk without ceiling
CookieNoCeiling(d, parent) == FALSE

\* "parent.name in ["body", "html"]"
CookieCeiling(d, parent) == NameOf(d, parent) \in {"body", "html"}

\* the walk up from container with so many rounds of the loop left: it ends
\* below a parent named body or html, at the BeautifulSoup object (which has
\* no parent), at a parent that passes the test, or after the last round
RECURSIVE CookieWalk(_, _, _)
CookieWalk(d, container, rounds) ==
    IF rounds = 0 \/ container = Soup THEN container
    ELSE IF CookieCeiling(d, d[container].parent) THEN container
    ELSE IF CookieContainer(d, d[container].parent) THEN d[container].parent
    ELSE CookieWalk(d, d[container].parent, rounds - 1)

\* preserve_text_tags of find_cookie_consent_candidates
cookie_preserve_text_tags == {"a", "button", "span", "p", "h1", "h2", "h3", "label"}

\* ------------------------------------------------------ cookie documents

\* <div role="dialog"><button>Accept all</button></div>
DialogAccept ==
    << Tag("div", Soup, "", "", "dialog", "", ""),
       Tag("button", 1, "", "", "", "", "Accept all") >>

\* <div><p>We value your privacy</p><button aria-label=...>text</button></div>:
\* no cookie keyword and no dialog role, only the button
AcceptButtonOnly(text, aria_label) ==
    << Plain("div", Soup), Tag("p", 1, "", "", "", "", "We value your privacy"),
       Tag("button", 1, "", "", "", aria_label, text) >>

\* the texts and ARIA labels of such buttons
AcceptButtons ==
    { <<"Accept all", "">>, <<"OK", "">>, <<"", "I agree">>, <<"Ja", "Akzeptieren">> }

\* the same, inside <html><body>
WrappedAcceptButton ==
    << Plain("html", Soup), Plain("body", 1), Plain("div", 2),
       Tag("a", 3, "", "", "", "", "Got it") >>

\* <html><body><div id="cookie-banner"><p>..</p><button class="consent-accept">
WrappedBanner ==
    << Plain("html", Soup), Plain("body", 1),
       Tag("div", 2, "", "cookie-banner", "", "", ""),
       Tag("p", 3, "", "", "", "", "We use cookies"),
       Tag("button", 3, "consent-accept", "", "", "", "Accept") >>

\* a link with a cookie class seven levels below a <div role="alertdialog">
DeepDialog ==
    << Plain("html", Soup), Plain("body", 1),
       Tag("div", 2, "", "", "alertdialog", "", ""),
       Plain("div", 3), Plain("div", 4), Plain("div", 5), Plain("div", 6),
       Plain("div", 7), Plain("div", 8),
       Tag("a", 9, "cookie-link", "", "", "", "policy") >>

\* <section class="Consent-Wall"><div class="cmp-box"><button id="cookie-ok">
NestedBanners ==
    << Plain("html", Soup), Plain("body", 1),
       Tag("section", 2, "Consent-Wall", "", "", "", ""),
       Tag("div", 3, "cmp-box", "", "", "", "notice"),
       Tag("button", 4, "", "cookie-ok", "", "", "Yes") >>

\* a fragment: <div class="cookie-banner"><a class="cookie-link">policy</a></div>
CookieFragment ==
    << Tag("div", Soup, "cookie-banner", "", "", "", ""),
       Tag("a", 1, "cookie-link", "", "", "", "policy") >>

\* the same <span class="cmp">x</span> twice: in the body, and in a
\* <div id="cookie">
RepeatedNotice ==
    << Plain("html", Soup), Plain("body", 1),
       Tag("span", 2, "cmp", "", "", "", "x"),
       Tag("div", 2, "", "cookie", "", "", ""),
       Tag("span", 4, "cmp", "", "", "", "x") >>

\* two banners side by side
TwoBanners ==
    << Plain("html", Soup), Plain("body", 1),
       Tag("div", 2, "banner", "", "", "", "sale"),
       Tag("div", 2, "", "dialog-1", "", "", ""),
       Tag("h2", 4, "", "", "", "", "Cookies") >>

\* <html><body class="cookie-open"><div><p>hello</p></div></body></html>
MarkedBody ==
    << Plain("html", Soup), Tag("body", 1, "cookie-open", "", "", "", ""),
       Plain("div", 2), Tag("p", 3, "", "", "", "", "hello") >>

\* a button whose text holds the characters of the pattern themselves
LiteralPattern ==
    << Plain("html", Soup), Plain("body", 1), Plain("div", 2),
       Tag("button", 3, "", "", "", "", "\\bOK\\b") >>

\* nothing that looks like a consent banner
NoCookieSignal == << Plain("div", Soup), Link(1, "home") >>

CookieDocuments ==
    {AcceptButtonOnly(b[1], b[2]) : b \in AcceptButtons}
        \cup {DialogAccept, WrappedAcceptButton, WrappedBanner, DeepDialog,
              NestedBanners, CookieFragment, RepeatedNotice, TwoBanners,
              MarkedBody, LiteralPattern, NoCookieSignal}

\* --------------------------------------------------------- the call, by step

CookieInit ==
    /\ Constructed
    /\ max_depth = 0
    /\ max_concurrent = 1
    /\ start_url = UrlRoot
    /\ call \in [html_content : CookieDocuments,
                 max_candidates : {1, DefaultMaxCandidates}]
    /\ loc = [stage |-> "heuristics", candidate_elements |-> {}, iterated |-> {},
              walks |-> {}, candidate_containers |-> {}, filtered |-> {},
              final_containers |-> <<>>]
    /\ ret = <<>>

\* the heuristics fill candidate_elements
CookieGatherElements ==
    /\ loc.stage = "heuristics"
    /\ loc' = [loc EXCEPT !.stage = "containers",
                          !.candidate_elements = CookieElements(call.html_content)]
    /\ UNCHANGED <<pc, params, crawlerVars, visited_urls, all_links, tpc,
                   sleep_left, results, fetcherVars, completions, call, ret>>

\* one round of "for element in candidate_elements", in the order in which
\* the set is iterated; walks keeps, for each element, the container that
\* was added for it
CookieConsolidate(element) ==
    /\ loc.stage = "containers"
    /\ element \in loc.candidate_elements \ loc.iterated
    /\ loc' = [loc EXCEPT
                 !.iterated = @ \cup {element},
                 !.walks = @ \cup {<<element,
                                     CookieWalk(call.html_content, element,
                                                CookieParents)>>},
                 !.candidate_containers =
                     AddTag(call.html_content, @,
                            CookieWalk(call.html_content, element, CookieParents))]
    /\ UNCHANGED <<pc, params, crawlerVars, visited_urls, all_links, tpc,
                   sleep_left, results, fetcherVars, completions, call, ret>>

\* one round of "for container in sorted_containers": the containers come by
\* descending len(str(x)), containers of the same length in the order in
\* which the set candidate_containers is iterated
CookieFilterContainer(container) ==
    /\ loc.stage = "containers"
    /\ loc.iterated = loc.candidate_elements
    /\ container \in loc.candidate_containers \ loc.filtered
    /\ \A other \in loc.candidate_containers \ loc.filtered :
          StrLen(call.html_content, container) >= StrLen(call.html_content, other)
    /\ loc' = [loc EXCEPT
                 !.filtered = @ \cup {container},
                 !.final_containers =
                     IF IsRedundant(call.html_content, container, @)
                     THEN @ ELSE Append(@, container)]
    /\ UNCHANGED <<pc, params, crawlerVars, visited_urls, all_links, tpc,
                   sleep_left, results, fetcherVars, completions, call, ret>>

\* the snippets of the first max_candidates containers are returned
CookieGenerateSnippets ==
    /\ loc.stage = "containers"
    /\ loc.iterated = loc.candidate_elements
    /\ loc.filtered = loc.candidate_containers
    /\ loc' = [loc EXCEPT !.stage = "returned"]
    /\ ret' = [i \in DOMAIN FirstOf(loc.final_containers, call.max_candidates) |->
                  Snippet(call.html_content, loc.final_containers[i],
                          cookie_preserve_text_tags)]
    /\ UNCHANGED <<pc, params, crawlerVars, visited_urls, all_links, tpc,
                   sleep_left, results, fetcherVars, completions, call>>

CookieNext ==
    \/ CookieGatherElements
    \/ \E element \in TagsOf(call.html_content) : CookieConsolidate(element)
    \/ \E container \in {Soup} \cup TagsOf(call.html_content) :
          CookieFilterContainer(container)
    \/ CookieGenerateSnippets

CookieSpec == CookieInit /\ [][CookieNext]_vars

-----------------------------------------------------------------------------
\* Properties

Netloc(url) == urlparse(url).netloc

\* the URLs for which a GET was issued
RequestedUrls == {requests[k].url : k \in DOMAIN requests}

\* the fetches that ended with a page whose links were extracted
OkCompletions == {k \in DOMAIN completions : completions[k].ok}

LinkSet(links) == {links[k] : k \in DOMAIN links}

\* the URLs of the site
SiteUrls == {UrlRoot, UrlA, UrlASlash, UrlB, UrlC, UrlOther}

\* what extraction yields for each page of the site
SiteLinks == [u \in SiteUrls |-> LinkSet(extract_links_with_text(Page(u), u))]

\* the link records extraction yields for the page fetched as page_url
ExtractedLinks(page_url) == SiteLinks[page_url]

ExtractedUrls(page_url) == {l.url : l \in ExtractedLinks(page_url)}

\* the successful page-processing steps that extracted url
Extractions(url) ==
    {k \in OkCompletions : url \in ExtractedUrls(completions[k].url)}

SourcePages(url) ==
    {all_links[url].found_on_urls[j] : j \in DOMAIN all_links[url].found_on_urls}

\* C1: every URL is passed to the fetcher at most once in a crawl: no two
\* entries of the request history carry the same URL.
C1_FetchedAtMostOnce ==
    \A j, k \in DOMAIN requests : requests[j].url = requests[k].url => j = k

\* a crawl has ended in which a URL whose fetch failed is linked from two
\* pages, one of them processed at a deeper level than its dispatch
C1_Witness ==
    /\ pc = "done"
    /\ \E k \in DOMAIN completions :
          /\ ~completions[k].ok
          /\ completions[k].url \in DOMAIN all_links
          /\ Len(all_links[completions[k].url].found_on_urls) >= 2
          /\ \E j \in OkCompletions :
                /\ completions[j].depth > completions[k].depth
                /\ completions[k].url \in ExtractedUrls(completions[j].url)

\* the tasks inside the gated section of get_content
InGate == {i \in Tasks : tpc[i] \in {"sleeping", "fetching"}}

\* C2: at no time are more than max_concurrent get_content calls between
\* acquiring and releasing a slot.
C2_ConcurrencyBound == Cardinality(InGate) <= max_concurrent

\* the gate is full, with a sleeper and a request in flight, and a task of
\* the same level is kept waiting outside
C2_Witness ==
    /\ Cardinality(InGate) = max_concurrent
    /\ \E i \in Tasks : tpc[i] = "waiting"
    /\ \E i \in Tasks : tpc[i] = "sleeping"
    /\ \E i \in Tasks : tpc[i] = "fetching"

\* C3: any two successive request dispatches are at least Delay apart: the
\* time since the previous dispatch, measured at each dispatch, is never
\* below Delay.
C3_DispatchSpacing == last_gap >= Delay

\* C4: no URL whose authority differs from the seed's is fetched or added to
\* the visited set.
C4_DomainScoping ==
    \A u \in RequestedUrls \cup visited_urls : Netloc(u) = Netloc(start_url)

\* a URL of another authority was in a frontier and its task has ended
C4_Witness ==
    \E i \in Tasks : tpc[i] = "done" /\ Netloc(current_urls[i]) # Netloc(start_url)

\* C5: depth_found of every record is the depth level of the first
\* page-processing step that extracted the URL, whatever was processed since.
C5_DepthFoundIsFirst ==
    \A u \in DOMAIN all_links :
        /\ Extractions(u) # {}
        /\ all_links[u].depth_found = completions[Min(Extractions(u))].depth

\* a URL was extracted again on a page of a deeper level than its depth_found
C5_Witness ==
    \E u \in DOMAIN all_links :
        \E k \in Extractions(u) : completions[k].depth > all_links[u].depth_found

\* C6: a crawl with max_depth = 0 fetches the seed exactly once and returns
\* the registry of the seed page's links.
C6_DepthZeroFetchesSeed ==
    (pc = "done" /\ max_depth = 0) =>
        /\ requests = <<[url |-> start_url, depth |-> 0]>>
        /\ DOMAIN all_links = ExtractedUrls(start_url)

\* C7 (as stated): the registry holds no record for a URL of another
\* authority than the seed's.
C7_NoOtherDomainRecord ==
    \A u \in DOMAIN all_links : Netloc(u) = Netloc(start_url)

\* C7 (amended): the registry holds a record for exactly the links extracted
\* from the pages processed so far, whatever their authority; a URL of
\* another authority is recorded and never fetched.
C7_AllExtractedRecorded ==
    /\ DOMAIN all_links = UNION {ExtractedUrls(completions[k].url) : k \in OkCompletions}
    /\ \A u \in DOMAIN all_links : Netloc(u) # Netloc(start_url) => u \notin RequestedUrls

\* a level has ended after which the registry holds a same-domain record and
\* an other-domain record found on the same page
C7_Witness ==
    /\ current_depth >= 1
    /\ \E u, v \in DOMAIN all_links :
          /\ Netloc(u) = Netloc(start_url)
          /\ Netloc(v) # Netloc(start_url)
          /\ all_links[u].found_on_urls[1] = all_links[v].found_on_urls[1]

\* the texts extracted for url on the pages processed so far
TextsSeen(url) ==
    UNION {l.associated_texts :
             l \in {m \in UNION {ExtractedLinks(completions[k].url) : k \in OkCompletions} :
                      m.url = url}}

\* C8: the texts of every record are the union of the texts extracted for its
\* URL on all the pages processed so far.
C8_TextsAreUnion ==
    \A u \in DOMAIN all_links : all_links[u].associated_texts = TextsSeen(u)

\* the position in the completion history of the fetch of page_url
CompletionOf(page_url) ==
    CHOOSE k \in DOMAIN completions : completions[k].url = page_url

\* every found_on_urls is non-empty, without repeats, and lists pages in the
\* order in which their processing ended
FoundOnWellFormed ==
    \A u \in DOMAIN all_links :
        LET f == all_links[u].found_on_urls
        IN /\ f # <<>>
           /\ \A j, k \in DOMAIN f :
                 j < k => /\ f[j] # f[k]
                          /\ f[j] \in {completions[n].url : n \in OkCompletions}
                          /\ f[k] \in {completions[n].url : n \in OkCompletions}
                          /\ CompletionOf(f[j]) < CompletionOf(f[k])

\* every record is kept, and its found_on_urls is unchanged or has one page
\* more at its end
FoundOnGrows ==
    \A u \in DOMAIN all_links :
        /\ u \in DOMAIN all_links'
        /\ LET f == all_links[u].found_on_urls
               g == all_links'[u].found_on_urls
           IN \/ g = f
              \/ /\ Len(g) = Len(f) + 1
                 /\ SubSeq(g, 1, Len(f)) = f

\* C9: in every state each record's found_on_urls is non-empty, free of
\* repeats and in processing order, and every step leaves it unchanged or
\* appends exactly one page at its end.
C9_FoundOnUrlsOnlyGrow == [][FoundOnGrows /\ FoundOnWellFormed']_vars

\* a record has been found on two pages
C9_Witness ==
    \E u \in DOMAIN all_links : Len(all_links[u].found_on_urls) >= 2

\* whether the fetch of task i of the current level ended with its links
\* extracted
TaskOk(i) ==
    \E k \in OkCompletions :
        /\ completions[k].url = current_urls[i]
        /\ completions[k].depth = current_depth

\* C10: a task whose fetch or extraction failed returns no next-level URL and
\* is the source of no record; every page processed with success has all its
\* links in the registry with the page among their sources; and when the crawl
\* has ended, every same-domain link of a page processed before the last
\* level was fetched, whatever failed beside it.
C10_FailureIsolation ==
    /\ \A i \in Tasks : (tpc[i] = "done" /\ ~TaskOk(i)) => results[i] = <<>>
    /\ \A u \in DOMAIN all_links :
          SourcePages(u) \subseteq {completions[k].url : k \in OkCompletions}
    /\ \A k \in OkCompletions :
          \A u \in ExtractedUrls(completions[k].url) :
              /\ u \in DOMAIN all_links
              /\ completions[k].url \in SourcePages(u)
              /\ (pc = "done" /\ completions[k].depth < max_depth - 1
                    /\ Netloc(u) = Netloc(start_url)) => u \in RequestedUrls

\* a crawl has ended in which a fetch failed at a level where a sibling's
\* page was processed, and a link of that sibling was fetched afterwards
C10_Witness ==
    /\ pc = "done"
    /\ \E j, k \in DOMAIN completions :
          /\ ~completions[j].ok
          /\ completions[k].ok
          /\ completions[j].depth = completions[k].depth
          /\ \E r \in DOMAIN requests :
                /\ requests[r].depth = completions[k].depth + 1
                /\ requests[r].url \in ExtractedUrls(completions[k].url)

\* C11: under fair scheduling, with every request coming back, every crawl
\* ends (crawl() returns all_links), and it never processes more than
\* max_depth levels, whatever the link graph and whichever fetches fail.
C11_Terminates == <>(pc = "done") /\ [](current_depth <= max_depth)

\* a crawl over the cyclic site has ended after max_depth levels, three or
\* more, with a failed fetch among its requests
C11_Witness ==
    /\ pc = "done"
    /\ max_depth >= 3
    /\ current_depth = max_depth
    /\ \E j \in DOMAIN completions : ~completions[j].ok
    /\ \E j \in DOMAIN completions :
          completions[j].ok /\ start_url \in ExtractedUrls(completions[j].url)

\* C12: normalize_url without a base is idempotent: normalizing a URL that
\* normalize_url returned gives that URL again.
C12_NormalizeIdempotent ==
    (Len(ret) >= 2 /\ call.base_url = <<>>) => ret[2] = ret[1]

\* the URL normalize_url works on: resolved against the base, if any
ResolvedUrl == IF call.base_url # <<>> THEN urljoin(call.base_url, call.url) ELSE call.url

\* a URL whose parsed path ends with "/" and is not "/"
HasTrailingSlash(url) == EndsWithSlash(urlparse(url).path) /\ urlparse(url).path # <<"/">>

\* url and trimmed differ in nothing but the last "/" of url's path
TrailingSlashRemoved(url, trimmed) ==
    /\ urlparse(trimmed).scheme = urlparse(url).scheme
    /\ urlparse(trimmed).netloc = urlparse(url).netloc
    /\ urlparse(trimmed).query = urlparse(url).query
    /\ urlparse(trimmed).path \o <<"/">> = urlparse(url).path

\* C13: for a URL whose path ends with "/" and is not "/", normalize_url
\* returns the fragment-free URL without the path's last "/", scheme,
\* authority, rest of the path and query unchanged; for any other URL it
\* returns the fragment-free URL.
C13_TrailingSlashOnly ==
    ret # <<>> =>
        IF HasTrailingSlash(urldefrag(ResolvedUrl))
        THEN TrailingSlashRemoved(urldefrag(ResolvedUrl), ret[1])
        ELSE ret[1] = urldefrag(ResolvedUrl)

\* normalize_url(u) for the URLs of the site
NormalForm == [u \in SiteUrls |-> normalize_url(u, <<>>)]

\* C14: every member of visited_urls is its own normalization, and no two
\* requests of a crawl are for URLs with the same normalization.
C14_VisitedNormalized ==
    /\ \A u \in visited_urls : NormalForm[u] = u
    /\ \A j, k \in DOMAIN requests :
          j # k => NormalForm[requests[j].url] # NormalForm[requests[k].url]

\* a document that is one top-level <nav class="pagination"> holding only
\* page links
IsPaginationNav(d) == d \in {PaginationNav(texts) : texts \in PageLinkTexts}

\* C15: for a document that is one top-level nav with class "pagination"
\* holding only page links, find_pagination_candidates returns exactly one
\* snippet, the nav's, and the nav and its links all consolidate to the nav,
\* which is tag 1 of the document.
C15_OneSnippetAtNav ==
    (loc.stage = "returned" /\ IsPaginationNav(call.html_content)
        /\ call.max_candidates = DefaultMaxCandidates)
    => /\ loc.candidate_containers = {1}
       /\ ret = <<Snippet(call.html_content, 1, preserve_text_tags)>>

\* get_content called directly

\* final statuses of responses (redirects are followed, informational
\* responses are skipped), and 0 for no response
Statuses == {101, 200, 204, 299, 300, 301, 304, 399, 400, 404, 499, 500, 503, 599}
NoStatus == 0

\* response.raise_for_status() raises ClientResponseError, a ClientError,
\* when the status is 400 or more
RaisesForStatus(status) == status >= 400

\* the final statuses of the responses of each outcome
FinalStatuses(outcome) ==
    CASE outcome \in {"client_error", "timeout"} -> {NoStatus}
      [] outcome = "bad_status" -> {s \in Statuses : RaisesForStatus(s)}
      [] outcome = "other_status" ->
            {s \in Statuses : ~RaisesForStatus(s) /\ s \notin 200..299}
      [] OTHER -> {s \in Statuses : s \in 200..299}

Responses ==
    {r \in [outcome : Outcomes, status : Statuses \cup {NoStatus}] :
        r.status \in FinalStatuses(r.outcome)}

GetContentInit ==
    /\ Constructed
    /\ max_depth = 0
    /\ max_concurrent = 1
    /\ start_url = UrlRoot
    /\ call \in [url : SiteUrls, response : Responses]
    /\ loc = <<>>
    /\ ret = <<>>

\* the GET comes back and get_content returns
GetContentReturns ==
    /\ ret = <<>>
    /\ ret' = <<get_content(call.url, call.response.outcome)>>
    /\ UNCHANGED <<pc, params, crawlerVars, visited_urls, all_links, tpc,
                   sleep_left, results, fetcherVars, completions, call, loc>>

GetContentNext == GetContentReturns

GetContentSpec == GetContentInit /\ [][GetContentNext]_vars

\* C16: get_content returns the body only for a final status in 200..299;
\* for every other final status, a transport error and a timeout it returns
\* None.
C16_BodyOnlyFor2xx ==
    ret # <<>> => (~ret[1].is_none <=> call.response.status \in 200..299)

\* the requests of a level whose fetch has not come back
Unfinished(depth) ==
    {r \in DOMAIN requests :
        /\ requests[r].depth = depth
        /\ ~\E k \in DOMAIN completions :
              completions[k].url = requests[r].url /\ completions[k].depth = depth}

\* C17: no task of a level starts before every task of the levels before it
\* is done: whenever a request of a level has been sent or the level is the
\* current one, no request of an earlier level is unfinished, and a URL is
\* marked visited only if it is in the current frontier or was requested at
\* an earlier level.
C17_LevelBarrier ==
    /\ \A depth \in 0..(current_depth - 1) : Unfinished(depth) = {}
    /\ \A r \in DOMAIN requests : requests[r].depth <= current_depth
    /\ \A u \in visited_urls :
          \/ \E i \in DOMAIN current_urls : current_urls[i] = u
          \/ \E r \in DOMAIN requests : requests[r].url = u /\ requests[r].depth < current_depth

\* a request of level 2 has been sent after the two fetches of level 1 came
\* back in the order opposite to the order in which they were sent, one of
\* them failing
C17_Witness ==
    /\ \E r \in DOMAIN requests : requests[r].depth = 2
    /\ \E q, r \in DOMAIN requests, j, k \in DOMAIN completions :
          /\ requests[q].depth = 1 /\ requests[r].depth = 1 /\ q < r
          /\ completions[j].url = requests[q].url /\ completions[j].depth = 1
          /\ completions[k].url = requests[r].url /\ completions[k].depth = 1
          /\ k < j
          /\ ~completions[k].ok

\* C18: the registry changes only in the aggregation after the tasks of a
\* level, so no step changes all_links and leaves a task of the level with
\* its fetch in flight.
C18_RegistryOnlyInAggregation ==
    [][all_links' # all_links => \A i \in Tasks : tpc'[i] # "fetching"]_vars

\* C19: the slots held are those of the get_content calls inside the gated
\* section, whatever the outcomes of the calls before, and none is held when
\* no call is in progress: at the barrier of a level and when the crawl has
\* ended.
C19_SlotsReleased ==
    /\ sem = max_concurrent - Cardinality(InGate)
    /\ (AllDone \/ pc = "done") => sem = max_concurrent

\* the crawl has ended and all slots are free, after a level at which a fetch
\* failed while a sibling held the other slot
C19_Witness ==
    /\ pc = "done"
    /\ max_concurrent = 2
    /\ sem = max_concurrent
    /\ \E j, k \in DOMAIN completions :
          /\ j < k
          /\ ~completions[j].ok
          /\ completions[j].depth = completions[k].depth
          /\ \E q, r \in DOMAIN requests :
                /\ requests[q].url = completions[j].url
                /\ requests[r].url = completions[k].url
                /\ requests[q].depth = completions[j].depth
                /\ requests[r].depth = completions[j].depth
                /\ last_gap < Delay

\* the URLs extraction yields for each page of the site, in order
SiteLinkSeq ==
    [u \in SiteUrls |->
        [k \in DOMAIN extract_links_with_text(Page(u), u) |->
            extract_links_with_text(Page(u), u)[k].url]]

\* the links of the page of task i that are not visited, in the order of
\* extraction; none when the page was not processed or the level is the last
UnvisitedLinks(i) ==
    IF TaskOk(i) /\ current_depth < max_depth - 1
    THEN SelectSeq(SiteLinkSeq[current_urls[i]], LAMBDA u : u \notin visited_urls)
    ELSE <<>>

\* those links for all pages of the level, in the order of the frontier
LevelLinks == Concat([i \in DOMAIN current_urls |-> UnvisitedLinks(i)])

FirstIndex(s, u) == Min({k \in DOMAIN s : s[k] = u})

\* frontier holds the URLs of links, once each, in the order of their first
\* occurrence in links
FirstSeenOrder(frontier, links) ==
    /\ \A i, j \in DOMAIN frontier : i # j => frontier[i] # frontier[j]
    /\ {frontier[i] : i \in DOMAIN frontier} = {links[k] : k \in DOMAIN links}
    /\ \A i, j \in DOMAIN frontier :
          i < j => FirstIndex(links, frontier[i]) < FirstIndex(links, frontier[j])

\* C20: the frontier a level starts with has no URL twice and no visited
\* URL, and holds the unvisited links of the pages of the level before, in
\* the order of their first occurrence when those pages are taken in the
\* order of that level's frontier.
C20_FrontierFirstSeen ==
    [][current_depth' = current_depth + 1 =>
          /\ \A i \in DOMAIN current_urls' : current_urls'[i] \notin visited_urls'
          /\ FirstSeenOrder(current_urls', LevelLinks)]_vars

\* level 2 starts with the frontier (o/b, c): page a gave (o/b, c) and page b
\* gave (c, o/b), and the fetch of b came back before the fetch of a
C20_Witness ==
    /\ pc = "running"
    /\ current_depth = 2
    /\ \A i \in Tasks : tpc[i] = "new"
    /\ current_urls = <<UrlOther, UrlC>>
    /\ \E j, k \in DOMAIN completions :
          /\ j < k
          /\ completions[j] = [url |-> UrlB, depth |-> 1, ok |-> TRUE]
          /\ completions[k] = [url |-> UrlA, depth |-> 1, ok |-> TRUE]

\* the URLs that have been in a frontier: those of the current one and those
\* marked visited or requested at a level before
FrontierUrls ==
    LinkSet(current_urls) \cup visited_urls \cup RequestedUrls

C22_PaginationNoNestedContainers ==
    (loc.stage = "returned" /\ call.html_content \in PaginationDocuments) =>
        \A i, j \in DOMAIN loc.final_containers :
            ~IsParentOf(call.html_content, loc.final_containers[i],
                        loc.final_containers[j])

\* C23: after the redundancy filter of find_cookie_consent_candidates no
\* retained container is below another retained container, and every
\* candidate container that was discarded is below a retained one.
C23_CookieFilterKeepsEnclosing ==
    (loc.stage = "returned" /\ call.html_content \in CookieDocuments) =>
        /\ \A i, j \in DOMAIN loc.final_containers :
              ~IsParentOf(call.html_content, loc.final_containers[i],
                          loc.final_containers[j])
        /\ \A c \in loc.candidate_containers \ LinkSet(loc.final_containers) :
              \E i \in DOMAIN loc.final_containers :
                  IsParentOf(call.html_content, loc.final_containers[i], c)

\* tag n, its parent, the parent of that, and so on up to the BeautifulSoup
\* object
RECURSIVE PathUp(_, _)
PathUp(d, n) == IF n = Soup THEN <<Soup>> ELSE <<n>> \o PathUp(d, d[n].parent)

\* container is the tag `levels` parents above element, no parent passed on
\* the way is named body or html or passes the test of the walk, and the
\* walk had a reason to end there: the test passed, or the next parent is
\* named body or html or does not exist, or the rounds were used up
WalkEndsAt(d, element, container, levels) ==
    /\ levels + 1 \in DOMAIN PathUp(d, element)
    /\ PathUp(d, element)[levels + 1] = container
    /\ \A k \in 2..(levels + 1) : NameOf(d, PathUp(d, element)[k]) \notin {"body", "html"}
    /\ \A k \in 2..levels : ~CookieContainer(d, PathUp(d, element)[k])
    /\ \/ levels >= 1 /\ CookieContainer(d, container)
       \/ levels = CookieParents
       \/ container = Soup
       \/ NameOf(d, d[container].parent) \in {"body", "html"}

\* C24: the container adopted for a candidate element is the element or one
\* of its parents at most 5 levels up; it is not body or html unless it is
\* the element itself; no parent between the two is body, html or a parent
\* with a cookie keyword or dialog role, so the walk stops below body/html
\* and at the nearest such parent.
C24_ContainerBelowBody ==
    call.html_content \in CookieDocuments =>
        \A w \in loc.walks :
            /\ \E levels \in 0..CookieParents :
                  WalkEndsAt(call.html_content, w[1], w[2], levels)
            /\ NameOf(call.html_content, w[2]) \in {"body", "html"} => w[2] = w[1]

\* the call has returned for a document in which one element stays where it
\* is because its parent is body, and another climbs the five levels without
\* reaching the dialog above it
C24_Witness ==
    /\ loc.stage = "returned"
    /\ call.html_content = DeepDialog
    /\ \E w \in loc.walks :
          /\ w[2] = w[1]
          /\ CookieElement(call.html_content, w[1])
          /\ NameOf(call.html_content, call.html_content[w[1]].parent) = "body"
    /\ \E w \in loc.walks :
          /\ WalkEndsAt(call.html_content, w[1], w[2], CookieParents)
          /\ ~CookieContainer(call.html_content, w[2])
          /\ \E a \in TagsOf(call.html_content) :
                IsParentOf(call.html_content, a, w[2]) /\ CookieContainer(call.html_content, a)

\* the documents whose only signal is a link or button with acceptance
\* vocabulary
AcceptOnlyDocuments ==
    {AcceptButtonOnly(b[1], b[2]) : b \in AcceptButtons} \cup {WrappedAcceptButton}

\* whether tag n is in the snippet with its text
InSnippet(d, snippet, n) ==
    /\ \E k \in DOMAIN snippet.top : snippet.top[k] = n \/ IsParentOf(d, snippet.top[k], n)
    /\ n \notin snippet.blanked

\* C25: for a document whose only signal is a link or button with acceptance
\* vocabulary as text or ARIA label (its last tag), the link or button is a
\* candidate element and the call returns a snippet that holds it with its
\* text.
C25_AcceptButtonSelected ==
    (loc.stage = "returned" /\ call.html_content \in AcceptOnlyDocuments) =>
        /\ Len(call.html_content) \in loc.candidate_elements
        /\ \E i \in DOMAIN ret :
              InSnippet(call.html_content, ret[i], Len(call.html_content))

\* C26: every URL other than the seed for which a GET was issued has a
\* record in the registry, and the GET was issued at the level after its
\* depth_found.
C26_FetchedOneLevelAfterFound ==
    \A r \in DOMAIN requests :
        requests[r].url # start_url =>
            /\ requests[r].url \in DOMAIN all_links
            /\ requests[r].depth = all_links[requests[r].url].depth_found + 1

\* a crawl has ended in which a URL first extracted at level 1 was fetched at
\* level 2, and a URL fetched at level 1 was extracted again on a page of
\* level 2
C26_Witness ==
    /\ pc = "done"
    /\ \E r \in DOMAIN requests :
          /\ requests[r].depth = 2
          /\ requests[r].url # start_url
          /\ all_links[requests[r].url].depth_found = 1
    /\ \E r \in DOMAIN requests, k \in OkCompletions :
          /\ requests[r].depth = 1
          /\ completions[k].depth = 2
          /\ requests[r].url \in ExtractedUrls(completions[k].url)

\* the records of URLs with the seed's authority that were found before the
\* last level
FoundBeforeLastLevel ==
    {u \in DOMAIN all_links :
        /\ Netloc(u) = Netloc(start_url)
        /\ all_links[u].depth_found < max_depth - 1}

\* C27: when the crawl has ended, every URL of the registry with the seed's
\* authority and depth_found < max_depth - 1 is in visited_urls and exactly
\* one GET was issued for it.
C27_FoundLinksAreVisited ==
    pc = "done" =>
        \A u \in FoundBeforeLastLevel :
            /\ u \in visited_urls
            /\ Cardinality({r \in DOMAIN requests : requests[r].url = u}) = 1

\* a crawl of three levels has ended in which a URL of the seed's authority
\* was found by two pages of level 1, at which another fetch failed, and was
\* fetched at level 2
C27_Witness ==
    /\ pc = "done"
    /\ max_depth = 3
    /\ \E u \in FoundBeforeLastLevel :
          /\ u # start_url
          /\ all_links[u].depth_found = 1
          /\ Len(all_links[u].found_on_urls) >= 2
          /\ \E r \in DOMAIN requests : requests[r] = [url |-> u, depth |-> 2]
    /\ \E k \in DOMAIN completions : ~completions[k].ok

\* the URLs whose fetch ended with a page: the fetch outcomes of the run, per
\* URL (a URL is fetched at most once)
OkUrls == {completions[k].url : k \in OkCompletions}

SiteNetloc == [u \in SiteUrls |-> Netloc(u)]

\* the depths after a level: the new links get the level's depth
FoundAfter(found, links, depth) ==
    [u \in DOMAIN found \cup links |-> IF u \in DOMAIN found THEN found[u] ELSE depth]

\* The crawl as a function of the seed, max_depth and the fetch outcomes,
\* level by level over sets, with no order among the pages of a level: the
\* visited set and the depth of each link found.
RECURSIVE LevelByLevel(_, _, _, _)
LevelAfter(fetched, links, depth, visited, found) ==
    LevelByLevel(IF depth < max_depth - 1 THEN links \ (visited \cup fetched) ELSE {},
                 depth + 1, visited \cup fetched, FoundAfter(found, links, depth))
LevelFetched(fetched, depth, visited, found) ==
    LevelAfter(fetched, UNION {ExtractedUrls(p) : p \in fetched \cap OkUrls},
               depth, visited, found)
LevelByLevel(frontier, depth, visited, found) ==
    IF frontier = {} \/ depth >= max_depth
    THEN [visited |-> visited, found |-> found]
    ELSE LevelFetched({u \in frontier : SiteNetloc[u] = SiteNetloc[start_url]
                                         /\ u \notin visited},
                      depth, visited, found)

\* whether the crawl's visited set, registry keys and depths are those of r
SameOutcome(r) ==
    /\ visited_urls = r.visited
    /\ DOMAIN all_links = DOMAIN r.found
    /\ \A u \in DOMAIN all_links : all_links[u].depth_found = r.found[u]

\* C28: the visited set, the keys of the registry and the depth_found of
\* every key at the end of a crawl are a function of the seed, max_depth
\* and the fetch outcomes per URL alone, so two crawls that differ in the
\* order in which the fetches of a level complete (or in max_concurrent) end
\* with the same three.
C28_OutcomeIndependentOfOrder ==
    pc = "done" => SameOutcome(LevelByLevel({start_url}, 0, {}, <<>>))

\* a crawl has ended in which the two pages of level 1 were processed in the
\* order opposite to that of the frontier, so that a link of both pages was
\* recorded by the second page of the frontier first
C28_Witness ==
    /\ pc = "done"
    /\ \E q, r \in DOMAIN requests, u \in DOMAIN all_links :
          /\ q < r
          /\ requests[q].depth = 1
          /\ requests[r].depth = 1
          /\ all_links[u].depth_found = 1
          /\ all_links[u].found_on_urls = <<requests[r].url, requests[q].url>>

====
